---------------------------- MODULE Spec2Model ----------------------------
(***************************************************************************)
(* generate_random_dimensions: a random shape (tuple of positive integers) *)
(* under size bounds and optional product / gcd constraints.               *)
(*                                                                         *)
(* The random source is the only input that is not an argument.  Every     *)
(* rng.shuffle / rng.randint is a choice over all outcomes the source can  *)
(* deliver, so the functions below return the SET of outcomes of a call.   *)
(* Each outcome records the sequence of random outcomes it consumed        *)
(* (draws); a source that is seeded again delivers that sequence again,    *)
(* which is what the script parameter expresses.                           *)
(***************************************************************************)
EXTENDS Integers, Sequences, FiniteSets

\* ------------------------------------------------------------------ bounds
MaxDims == 3
MaxSize == 4
MaxTotal == 10
MaxGcd == 2

\* ------------------------------------------------------- optional arguments
\* Optional[int]: None is the empty sequence, a supplied value v is <<v>>.
None == << >>

Some(v) == << v >>

IsNone(x) == x = None

Value(x) == x[1]

\* -------------------------------------------------------------- results
\* What a call produced: a returned tuple, or a raised ValueError (msg).
NoResult == [kind |-> "none", value |-> << >>, msg |-> ""]

Return(t) == [kind |-> "return", value |-> t, msg |-> ""]

Raise(m) == [kind |-> "raise", value |-> << >>, msg |-> m]

\* The outcome of a whole call: its result, the _memo dict it leaves behind
\* and the random outcomes it consumed.
Outcome(r, memo, draws) == [result |-> r, memo |-> memo, draws |-> draws]

\* ------------------------------------------------------- the random source
\* All orders a shuffle of m elements can produce: out[i] is the index of the
\* element that lands at position i.
Perms(m) == {p \in [1..m -> 1..m] : \A i, j \in 1..m : p[i] = p[j] => i = j}

Permute(list, p) == [i \in 1..Len(list) |-> list[p[i]]]

\* The k-th outcome of the source is fixed by the script when the script
\* holds an outcome of the same request at position k; otherwise it is free.
Scripted(script, k, op, arg) ==
    /\ k <= Len(script)
    /\ script[k].op = op
    /\ script[k].arg = arg

\* rng.shuffle(list): every order of the list, one outcome consumed.
RngShuffle(list, draws, script) ==
    LET m == Len(list)
        k == Len(draws) + 1
        outs == IF Scripted(script, k, "shuffle", m)
                THEN {script[k].out} ELSE Perms(m)
    IN  {[val |-> Permute(list, p),
          draws |-> Append(draws, [op |-> "shuffle", arg |-> m, out |-> p])]
         : p \in outs}

\* rng.randint(a, b): every integer of a..b, one outcome consumed.
RngRandint(a, b, draws, script) ==
    LET k == Len(draws) + 1
        outs == IF Scripted(script, k, "randint", b - a + 1)
                THEN {script[k].out} ELSE {<<v - a + 1>> : v \in a..b}
    IN  {[val |-> a + o[1] - 1,
          draws |-> Append(draws, [op |-> "randint", arg |-> b - a + 1, out |-> o])]
         : o \in outs}

\* [rng.randint(a, b) for _ in range(count)], appended to acc.
RECURSIVE RandintList(_, _, _, _, _, _)
RandintList(count, a, b, acc, draws, script) ==
    IF count <= 0 THEN {[val |-> acc, draws |-> draws]}
    ELSE UNION {RandintList(count - 1, a, b, Append(acc, r.val), r.draws, script)
                : r \in RngRandint(a, b, draws, script)}

\* ----------------------------------------------------------------- helpers
\* math.gcd on non-negative integers (Euclid); gcd(0, v) = v.
RECURSIVE Gcd(_, _)
Gcd(a, b) == IF b = 0 THEN a ELSE Gcd(b, a % b)

\* _gcd_of_list: g = 0; for v in values: g = math.gcd(g, v).
RECURSIVE GcdFrom(_, _, _)
GcdFrom(g, values, i) ==
    IF i > Len(values) THEN g ELSE GcdFrom(Gcd(g, values[i]), values, i + 1)

GcdOfList(values) == GcdFrom(0, values, 1)

\* Mutant of Scale: the k values are returned unscaled.
ScaleForgotten(g, ks) == ks

\* [g * k for k in ks]
Scale(g, ks) == [i \in 1..Len(ks) |-> g * ks[i]]

\* ---------------------------------------------------------------- the memo
\* _memo: Dict[(product, dims_left), Optional[List[int]]], as a set of
\* entries with at most one entry per key.
NotFound == [ok |-> FALSE, val |-> << >>]

Found(list) == [ok |-> TRUE, val |-> list]

MemoKey(product, dims_left) == << product, dims_left >>

MemoHas(memo, key) == \E e \in memo : e.key = key

MemoGet(memo, key) == (CHOOSE e \in memo : e.key = key).val

MemoPut(memo, key, val) ==
    {e \in memo : e.key # key} \cup {[key |-> key, val |-> val]}

\* Mutant of InitialMemo: one dict shared by all calls.
InitialMemoKept(previous) == previous

\* _memo = {} at every call: nothing of the previous call's dict is kept.
InitialMemo(previous) == {}

\* ------------------------------------------------------------ _find_factors
\* Mutant of Unreachable: the upper limit itself counts as out of reach.
UnreachableOffByOne(product, dims_left, low, high) ==
    product < low ^ dims_left \/ product >= high ^ dims_left

\* Early impossibility pruning.
Unreachable(product, dims_left, low, high) ==
    product < low ^ dims_left \/ product > high ^ dims_left

\* Mutant of Possible: the divisibility filter is missing.
PossibleUnfiltered(product, low, high) ==
    [i \in 1..(high - low + 1) |-> low + i - 1]

\* [d for d in range(low, high + 1) if product % d == 0]
Possible(product, low, high) ==
    SelectSeq([i \in 1..(high - low + 1) |-> low + i - 1],
              LAMBDA d : product % d = 0)

RECURSIVE FindFactors(_, _, _, _, _, _, _)
RECURSIVE TryDivisors(_, _, _, _, _, _, _, _, _)

\* The set of [res, memo, draws] that _find_factors(product, dims_left, low,
\* high) can end with, started with the given memo and draws.
FindFactors(product, dims_left, low, high, memo, draws, script) ==
    LET key == MemoKey(product, dims_left) IN
    IF MemoHas(memo, key)
    THEN {[res |-> MemoGet(memo, key), memo |-> memo, draws |-> draws]}
    ELSE IF dims_left = 1
    THEN IF low <= product /\ product <= high
         THEN {[res |-> Found(<<product>>), memo |-> memo, draws |-> draws]}
         ELSE {[res |-> NotFound, memo |-> MemoPut(memo, key, NotFound),
                draws |-> draws]}
    ELSE IF Unreachable(product, dims_left, low, high)
    THEN {[res |-> NotFound, memo |-> MemoPut(memo, key, NotFound),
           draws |-> draws]}
    ELSE UNION {TryDivisors(product, dims_left, low, high, s.val, 1,
                            memo, s.draws, script)
                : s \in RngShuffle(Possible(product, low, high), draws, script)}

\* for d in possible: ... from position i of the shuffled list on.
TryDivisors(product, dims_left, low, high, possible, i, memo, draws, script) ==
    LET key == MemoKey(product, dims_left) IN
    IF i > Len(possible)
    THEN {[res |-> NotFound, memo |-> MemoPut(memo, key, NotFound),
           draws |-> draws]}
    ELSE LET d == possible[i] IN
         UNION {IF sub.res.ok
                THEN {[res |-> Found(<<d>> \o sub.res.val),
                       memo |-> MemoPut(sub.memo, key, Found(<<d>> \o sub.res.val)),
                       draws |-> sub.draws]}
                ELSE TryDivisors(product, dims_left, low, high, possible, i + 1,
                                 sub.memo, sub.draws, script)
                : sub \in FindFactors(product \div d, dims_left - 1, low, high,
                                      memo, draws, script)}

\* ------------------------------------------------- generate_random_dimensions
\* Mutant of ValidationError: total_elements is not checked.
ValidationErrorNoTotal(n, lo, hi, T, g) ==
    IF n < 0 THEN "num_dimensions cannot be negative"
    ELSE IF lo < 1 THEN "min_size must be at least 1"
    ELSE IF hi < lo THEN "max_size must be >= min_size"
    ELSE IF ~IsNone(g) /\ Value(g) < 1 THEN "gcd_constraint must be at least 1"
    ELSE ""

\* 0. Basic validation: the message of the first check that fails, or "".
ValidationError(n, lo, hi, T, g) ==
    IF n < 0 THEN "num_dimensions cannot be negative"
    ELSE IF lo < 1 THEN "min_size must be at least 1"
    ELSE IF hi < lo THEN "max_size must be >= min_size"
    ELSE IF ~IsNone(T) /\ Value(T) < 1 THEN "total_elements must be at least 1"
    ELSE IF ~IsNone(g) /\ Value(g) < 1 THEN "gcd_constraint must be at least 1"
    ELSE ""

\* Mutant of ZeroDimensions: gcd_constraint is ignored.
ZeroDimensionsNoGcdCheck(T, g) ==
    IF ~IsNone(T) /\ Value(T) # 1
    THEN Raise("total_elements must be 1 when num_dimensions is 0")
    ELSE Return(<< >>)

\* 1. Trivial 0-dimension case.
ZeroDimensions(T, g) ==
    IF ~IsNone(T) /\ Value(T) # 1
    THEN Raise("total_elements must be 1 when num_dimensions is 0")
    ELSE IF ~IsNone(g)
    THEN Raise("gcd_constraint makes no sense for 0 dimensions")
    ELSE Return(<< >>)

\* 3. Scenario A: no total_elements and no gcd_constraint.
ScenarioA(n, lo, hi, memo, draws, script) ==
    {Outcome(Return(r.val), memo, r.draws)
     : r \in RandintList(n, lo, hi, << >>, draws, script)}

\* Mutant of GcdInBounds: the lower comparison is strict.
GcdInBoundsStrict(lo, hi, g) == lo < g /\ g <= hi

\* Mutant of KMax: rounds up instead of down.
KMaxCeil(hi, g) == (hi + g - 1) \div g

\* Mutant of ShuffleDims: the tuple is returned as built.
ShuffleDimsSkipped(dims, draws, script) == {[val |-> dims, draws |-> draws]}

\* min_size <= g <= max_size
GcdInBounds(lo, hi, g) == lo <= g /\ g <= hi

\* k_min = ceil(min_size / g), k_max = floor(max_size / g)
KMin(lo, g) == (lo + g - 1) \div g

KMax(hi, g) == hi \div g

\* rng.shuffle(dims) before the tuple is returned.
ShuffleDims(dims, draws, script) == RngShuffle(dims, draws, script)

RETRIES == 1000

\* 4a. Only gcd_constraint: for _ in range(RETRIES): ks = [1] + randints ...
RECURSIVE GcdRetry(_, _, _, _, _, _, _, _)
GcdRetry(retries, n, g, k_min, k_max, memo, draws, script) ==
    IF retries = 0
    THEN {Outcome(Raise("Unable to construct shape satisfying the gcd constraint"),
                  memo, draws)}
    ELSE UNION {IF GcdOfList(r.val) = 1
                THEN {Outcome(Return(s.val), memo, s.draws)
                      : s \in ShuffleDims(Scale(g, r.val), r.draws, script)}
                ELSE GcdRetry(retries - 1, n, g, k_min, k_max, memo, r.draws, script)
                : r \in RandintList(n - 1, k_min, k_max, <<1>>, draws, script)}

GcdOnly(n, lo, hi, g, memo, draws, script) ==
    IF n = 1 THEN {Outcome(Return(<<g>>), memo, draws)}
    ELSE IF KMin(lo, g) > 1
    THEN {Outcome(Raise("Size bounds prevent any dimension equalling the gcd"),
                  memo, draws)}
    ELSE GcdRetry(RETRIES, n, g, KMin(lo, g), KMax(hi, g), memo, draws, script)

\* 4b. Both total_elements and gcd_constraint.
Both(n, lo, hi, T, g, memo, draws, script) ==
    LET g_pow_n == g ^ n
        k_product == T \div g_pow_n
    IN
    IF T % g_pow_n # 0
    THEN {Outcome(Raise("total_elements must be divisible by gcd_constraint ** num_dimensions"),
                  memo, draws)}
    ELSE IF n = 1
    THEN IF k_product # 1
         THEN {Outcome(Raise("No valid single-dimension shape exists for the given product and gcd"),
                       memo, draws)}
         ELSE {Outcome(Return(<<g>>), memo, draws)}
    ELSE IF KMin(lo, g) > 1
    THEN {Outcome(Raise("Size bounds prevent any dimension equalling the gcd"),
                  memo, draws)}
    ELSE UNION {IF ~f.res.ok
                THEN {Outcome(Raise("No shape satisfies the combined product/gcd constraints"),
                              f.memo, f.draws)}
                ELSE {Outcome(Return(s.val), f.memo, s.draws)
                      : s \in ShuffleDims(Scale(g, <<1>> \o f.res.val), f.draws, script)}
                : f \in FindFactors(k_product, n - 1, KMin(lo, g), KMax(hi, g),
                                    memo, draws, script)}

\* 4. Scenarios where gcd_constraint is given.
WithGcd(n, lo, hi, T, g, memo, draws, script) ==
    IF ~GcdInBounds(lo, hi, g)
    THEN {Outcome(Raise("At least one dimension must be able to equal gcd_constraint"),
                  memo, draws)}
    ELSE IF KMin(lo, g) > KMax(hi, g)
    THEN {Outcome(Raise("No multiple of gcd_constraint fits into size bounds"),
                  memo, draws)}
    ELSE IF IsNone(T) THEN GcdOnly(n, lo, hi, g, memo, draws, script)
    ELSE Both(n, lo, hi, Value(T), g, memo, draws, script)

\* 5. total_elements but no gcd_constraint.  rng.shuffle(factors) shuffles
\* the list object that _memo holds under the top key, in place.
TotalOnly(n, lo, hi, T, memo, draws, script) ==
    IF n = 1
    THEN IF lo <= T /\ T <= hi
         THEN {Outcome(Return(<<T>>), memo, draws)}
         ELSE {Outcome(Raise("total_elements is outside the admissible size bounds for 1D"),
                       memo, draws)}
    ELSE IF T < lo ^ n \/ T > hi ^ n
    THEN {Outcome(Raise("total_elements cannot be realised with the given size bounds"),
                  memo, draws)}
    ELSE UNION {IF ~f.res.ok
                THEN {Outcome(Raise("No shape satisfies the given total_elements and size bounds"),
                              f.memo, f.draws)}
                ELSE {Outcome(Return(s.val),
                              MemoPut(f.memo, MemoKey(T, n), Found(s.val)), s.draws)
                      : s \in ShuffleDims(f.res.val, f.draws, script)}
                : f \in FindFactors(T, n, lo, hi, memo, draws, script)}

\* The whole function: the set of outcomes of one call with these arguments,
\* a memo that starts as memo0 and a source that delivers script.
Generate(n, lo, hi, T, g, memo0, script) ==
    LET err == ValidationError(n, lo, hi, T, g) IN
    IF err # "" THEN {Outcome(Raise(err), memo0, << >>)}
    ELSE IF n = 0 THEN {Outcome(ZeroDimensions(T, g), memo0, << >>)}
    ELSE IF IsNone(T) /\ IsNone(g) THEN ScenarioA(n, lo, hi, memo0, << >>, script)
    ELSE IF ~IsNone(g) THEN WithGcd(n, lo, hi, T, Value(g), memo0, << >>, script)
    ELSE TotalOnly(n, lo, hi, Value(T), memo0, << >>, script)

\* -------------------------------------------------------------------- state
VARIABLES
    num_dimensions, min_size, max_size, total_elements, gcd_constraint,
    rng,      \* the outcomes the random source is known to deliver next
    memo,     \* the _memo dict of the latest call
    result,   \* what the latest call returned or raised
    draws,    \* the random outcomes the latest call consumed
    ref,      \* result and draws of the call that first used the current seed
    replay,   \* the source was seeded again with the seed of ref
    pc        \* "ready" before a call, "done" after it

vars == << num_dimensions, min_size, max_size, total_elements, gcd_constraint,
           rng, memo, result, draws, ref, replay, pc >>

args == << num_dimensions, min_size, max_size, total_elements, gcd_constraint >>

NoRef == [result |-> NoResult, draws |-> << >>]

Init ==
    /\ num_dimensions \in -1..MaxDims
    /\ min_size \in 0..MaxSize
    /\ max_size \in 0..MaxSize
    /\ total_elements \in {None} \cup {Some(t) : t \in 0..MaxTotal}
    /\ gcd_constraint \in {None} \cup {Some(t) : t \in 0..MaxGcd}
    /\ rng = << >>
    /\ memo = {}
    /\ result = NoResult
    /\ draws = << >>
    /\ ref = NoRef
    /\ replay = FALSE
    /\ pc = "ready"

\* One call of generate_random_dimensions with the arguments of this state.
Call ==
    /\ pc = "ready"
    /\ \E o \in Generate(num_dimensions, min_size, max_size, total_elements,
                          gcd_constraint, InitialMemo(memo), rng) :
          /\ result' = o.result
          /\ memo' = o.memo
          /\ draws' = o.draws
          /\ ref' = IF replay THEN ref ELSE [result |-> o.result, draws |-> o.draws]
    /\ pc' = "done"
    /\ UNCHANGED << args, rng, replay >>

\* The caller builds a source from the same seed: it delivers the outcomes
\* of the reference call again.
Reseed ==
    /\ pc = "done"
    /\ ~replay
    /\ rng' = ref.draws
    /\ replay' = TRUE
    /\ pc' = "ready"
    /\ UNCHANGED << args, memo, result, draws, ref >>

Next == Call \/ Reseed

Spec == Init /\ [][Next]_vars

\* ------------------------------------------------- what the claims speak of
ValidArgs ==
    /\ num_dimensions >= 0
    /\ min_size >= 1
    /\ max_size >= min_size
    /\ (IsNone(total_elements) \/ Value(total_elements) >= 1)
    /\ (IsNone(gcd_constraint) \/ Value(gcd_constraint) >= 1)

Returned == pc = "done" /\ result.kind = "return"

Raised == pc = "done" /\ result.kind = "raise"

\* Before the first call: nothing is known about the source.
Fresh == pc = "ready" /\ ~replay

RECURSIVE ProductFrom(_, _)
ProductFrom(t, i) == IF i > Len(t) THEN 1 ELSE t[i] * ProductFrom(t, i + 1)

Product(t) == ProductFrom(t, 1)

DividesAll(d, t) == \A i \in 1..Len(t) : t[i] % d = 0

\* d is the greatest common divisor of the entries of t (all positive).
IsGcdOf(d, t) ==
    /\ d >= 1
    /\ DividesAll(d, t)
    /\ \A e \in 1..MaxSize : DividesAll(e, t) => e <= d

\* All tuples of num_dimensions integers within the size bounds.
Tuples == [1..num_dimensions -> min_size..max_size]

HasProduct(t) ==
    IsNone(total_elements) \/ Product(t) = Value(total_elements)

\* The accepted-solution set of the enumerate-then-choose search.
Accepted ==
    {t \in Tuples :
        /\ HasProduct(t)
        /\ \/ IsNone(gcd_constraint)
           \/ /\ IsGcdOf(Value(gcd_constraint), t)
              /\ \E i \in 1..Len(t) : t[i] = Value(gcd_constraint)}

\* The tuples a call from this state can return.
Returnable ==
    {o.result.value :
        o \in {x \in Generate(num_dimensions, min_size, max_size, total_elements,
                              gcd_constraint, InitialMemo(memo), rng) :
                 x.result.kind = "return"}}

\* C1: whenever a call with valid arguments returns, the tuple has exactly
\* num_dimensions entries and every entry lies in [min_size, max_size].
C1_LengthAndBounds ==
    (Returned /\ ValidArgs) =>
        /\ Len(result.value) = num_dimensions
        /\ \A i \in 1..Len(result.value) :
              min_size <= result.value[i] /\ result.value[i] <= max_size

C1_Witness ==
    /\ Returned /\ ValidArgs
    /\ num_dimensions = 3 /\ min_size = 2 /\ max_size = 4
    /\ result.value[1] = 4 /\ result.value[3] = 2

\* C2: whenever total_elements is supplied and a call with at least one
\* dimension returns, the product of the returned entries is total_elements.
C2_ProductExact ==
    (Returned /\ ValidArgs /\ num_dimensions >= 1 /\ ~IsNone(total_elements)) =>
        Product(result.value) = Value(total_elements)

C2_Witness ==
    /\ Returned /\ ValidArgs
    /\ num_dimensions = 3 /\ total_elements = Some(8) /\ IsNone(gcd_constraint)
    /\ result.value = <<4, 1, 2>>

\* C3: whenever gcd_constraint is supplied and a call returns, every entry is
\* a multiple of gcd_constraint, the greatest common divisor of the entries
\* is gcd_constraint, and at least one entry equals gcd_constraint.
C3_GcdExact ==
    (Returned /\ ValidArgs /\ ~IsNone(gcd_constraint)) =>
        /\ DividesAll(Value(gcd_constraint), result.value)
        /\ IsGcdOf(Value(gcd_constraint), result.value)
        /\ \E i \in 1..Len(result.value) : result.value[i] = Value(gcd_constraint)

C3_Witness ==
    /\ Returned /\ ValidArgs
    /\ gcd_constraint = Some(2) /\ num_dimensions = 3
    /\ result.value = <<4, 2, 4>>

\* C4: with valid arguments and at least one dimension a call returns if and
\* only if the accepted-solution set is not empty, and raises otherwise,
\* whatever orders the shuffles take and whatever the memo holds.
C4_ReturnsIffFeasible ==
    (pc = "done" /\ ValidArgs /\ num_dimensions >= 1) =>
        /\ result.kind \in {"return", "raise"}
        /\ result.kind = "return" <=> Accepted # {}

C4_Witness ==
    /\ Raised /\ ValidArgs
    /\ num_dimensions = 3 /\ min_size = 1 /\ max_size = 4
    /\ total_elements = Some(10) /\ IsNone(gcd_constraint)
    /\ Len(draws) = 3
    /\ \E e \in memo : e.key = MemoKey(5, 1)

\* Some tuple within the size bounds has greatest common divisor exactly
\* gcd_constraint (and the product, when one is asked for).
GcdSatisfiable ==
    \E t \in Tuples : IsGcdOf(Value(gcd_constraint), t) /\ HasProduct(t)

\* C5 as claimed: with gcd_constraint supplied, a call raises only when no
\* tuple within the size bounds has greatest common divisor exactly
\* gcd_constraint (and product total_elements when supplied).
C5_RaisesOnlyIfNoGcdTuple ==
    (pc = "done" /\ ValidArgs /\ num_dimensions >= 1 /\ ~IsNone(gcd_constraint)
        /\ GcdSatisfiable) => result.kind = "return"

\* C5 as amended: with gcd_constraint supplied, a call returns whenever some
\* tuple within the size bounds consists of multiples of gcd_constraint, has
\* an entry equal to gcd_constraint (and product total_elements when that
\* is supplied).
C5_ReturnsIfGcdEntryTuple ==
    (pc = "done" /\ ValidArgs /\ num_dimensions >= 1 /\ ~IsNone(gcd_constraint)
        /\ \E t \in Tuples :
              /\ DividesAll(Value(gcd_constraint), t)
              /\ \E i \in 1..Len(t) : t[i] = Value(gcd_constraint)
              /\ HasProduct(t))
    => result.kind = "return"

C5_Witness ==
    /\ Returned /\ ValidArgs
    /\ num_dimensions = 2 /\ min_size = 2 /\ max_size = 4
    /\ gcd_constraint = Some(2) /\ total_elements = Some(8)
    /\ result.value = <<4, 2>>

\* The number of orders of m elements.
RECURSIVE Factorial(_)
Factorial(m) == IF m <= 1 THEN 1 ELSE m * Factorial(m - 1)

\* The number of equally likely alternatives along a sequence of outcomes.
RECURSIVE Odds(_, _)
Odds(ds, i) ==
    IF i > Len(ds) THEN 1
    ELSE (IF ds[i].op = "shuffle" THEN Factorial(ds[i].arg) ELSE ds[i].arg)
         * Odds(ds, i + 1)

RECURSIVE LcmOf(_)
LcmOf(S) ==
    IF S = {} THEN 1
    ELSE LET x == CHOOSE y \in S : TRUE
             r == LcmOf(S \ {x})
         IN  (x * r) \div Gcd(x, r)

\* The sum of D / odds over the outcomes of S, V the odds still to add.
RECURSIVE SumOver(_, _, _)
SumOver(S, D, V) ==
    IF V = {} THEN 0
    ELSE LET v == CHOOSE y \in V : TRUE
         IN  Cardinality({o \in S : Odds(o.draws, 1) = v}) * (D \div v)
             + SumOver(S, D, V \ {v})

SumOf(S, D) == SumOver(S, D, {Odds(o.draws, 1) : o \in S})

\* The outcomes of a call from this state.
Outcomes ==
    Generate(num_dimensions, min_size, max_size, total_elements,
             gcd_constraint, InitialMemo(memo), rng)

\* A common denominator of the probabilities of all outcomes.
Denominator == LcmOf({Odds(o.draws, 1) : o \in Outcomes})

\* Denominator times the probability that the call returns t, each shuffle
\* and randint outcome being equally likely.
Weight(t) == SumOf({o \in Outcomes : o.result = Return(t)}, Denominator)

\* C6: when several tuples satisfy the constraints, every one of them is
\* returned with the same probability.
C6_Uniform ==
    (Fresh /\ ValidArgs /\ num_dimensions >= 1) =>
        \A s, t \in Accepted : Weight(s) = Weight(t)

\* C7: a call made with a source seeded like that of an earlier call with
\* the same arguments ends as that call did: the same tuple or the same
\* error, after the same random outcomes.
C7_Deterministic ==
    (pc = "done" /\ replay) => result = ref.result /\ draws = ref.draws

C7_Witness ==
    /\ Returned /\ replay /\ ValidArgs
    /\ num_dimensions = 3 /\ total_elements = Some(8) /\ IsNone(gcd_constraint)
    /\ Len(draws) = 3
    /\ result.value = <<2, 4, 1>>

\* C8: with num_dimensions = 0 and valid arguments a call returns the empty
\* tuple exactly when gcd_constraint is absent and total_elements is absent
\* or 1; otherwise it raises.
C8_ZeroDimensions ==
    (pc = "done" /\ ValidArgs /\ num_dimensions = 0) =>
        IF IsNone(gcd_constraint)
           /\ (IsNone(total_elements) \/ total_elements = Some(1))
        THEN result = Return(<< >>)
        ELSE result.kind = "raise"

C8_Witness ==
    /\ Raised /\ ValidArgs /\ num_dimensions = 0
    /\ total_elements = Some(1) /\ gcd_constraint = Some(1)

InvalidArgumentMessages ==
    { "num_dimensions cannot be negative",
      "min_size must be at least 1",
      "max_size must be >= min_size",
      "total_elements must be at least 1",
      "gcd_constraint must be at least 1" }

\* C9: a call with a malformed argument raises an invalid-argument error,
\* also when num_dimensions is 0, and consumes nothing from the source.
C9_ValidationFirst ==
    (pc = "done" /\ ~ValidArgs) =>
        /\ result.kind = "raise"
        /\ result.msg \in InvalidArgumentMessages
        /\ draws = << >>
        /\ num_dimensions < 0 => result.msg = "num_dimensions cannot be negative"

C9_Witness ==
    /\ Raised /\ num_dimensions = 0 /\ min_size = 1 /\ max_size = 1
    /\ total_elements = Some(0) /\ IsNone(gcd_constraint)
    /\ result.msg = "total_elements must be at least 1"

\* C10: with valid arguments and at least one dimension, every tuple of the
\* accepted-solution set is returned under some outcomes of the source, and
\* no other tuple is ever returned.
C10_ReachesAccepted ==
    /\ (Fresh /\ ValidArgs /\ num_dimensions >= 1) => Accepted \subseteq Returnable
    /\ (Returned /\ ValidArgs /\ num_dimensions >= 1) => result.value \in Accepted

C10_Witness ==
    /\ Returned /\ ValidArgs
    /\ num_dimensions = 3 /\ min_size = 1 /\ max_size = 4
    /\ total_elements = Some(8) /\ gcd_constraint = Some(1)
    /\ Cardinality(Accepted) = 6
    /\ result.value = <<2, 4, 1>>

=============================================================================
